---- MODULE Spec2Model ----
(***************************************************************************)
(* Model of vendor_ai.py: one run of full_pipeline.invoke on a vendor      *)
(* ledger.  The run is single-threaded; every external call (language      *)
(* model, web search) and every file operation is one step, and each of    *)
(* them either returns or raises.  The source has no try/except, so a      *)
(* raised exception reaches the top level of the script.                   *)
(*                                                                         *)
(* Python strings that the code transforms (amount strings, the raw        *)
(* recommendation text) are sequences of one-character strings; strings    *)
(* that the code only copies are TLA+ strings.  The module is taken as     *)
(* compiled by an interpreter that accepts the nested quotes of line 101.  *)
(***************************************************************************)
EXTENDS Integers, Sequences, FiniteSets, TLC

(***************************************************************************)
(* Bounds of the model.                                                    *)
(***************************************************************************)
MaxVendors == 2
MaxAmountLen == 3

(***************************************************************************)
(* Python string operations used by the code.                              *)
(***************************************************************************)
Whitespace == {" ", "\n", "\t"}

UpperCase == <<"A","B","C","D","E","F","G","H","I","J","K","L","M",
               "N","O","P","Q","R","S","T","U","V","W","X","Y","Z">>

LowerCase == <<"a","b","c","d","e","f","g","h","i","j","k","l","m",
               "n","o","p","q","r","s","t","u","v","w","x","y","z">>

Digits == <<"0","1","2","3","4","5","6","7","8","9">>

\* str.replace(old, '') for a one-character old: every occurrence is removed
RECURSIVE replace(_, _)
replace(s, old) ==
    IF s = <<>> THEN <<>>
    ELSE IF Head(s) = old THEN replace(Tail(s), old)
    ELSE <<Head(s)>> \o replace(Tail(s), old)

RECURSIVE lstrip(_)
lstrip(s) ==
    IF s # <<>> /\ Head(s) \in Whitespace THEN lstrip(Tail(s)) ELSE s

RECURSIVE rstrip(_)
rstrip(s) ==
    IF s # <<>> /\ s[Len(s)] \in Whitespace
    THEN rstrip(SubSeq(s, 1, Len(s) - 1)) ELSE s

\* str.strip()
strip(s) == rstrip(lstrip(s))

LowerChar(c) ==
    IF \E k \in 1..26 : UpperCase[k] = c
    THEN LowerCase[CHOOSE k \in 1..26 : UpperCase[k] = c]
    ELSE c

\* str.lower()
lower(s) == [k \in 1..Len(s) |-> LowerChar(s[k])]

IsDigit(c) == \E k \in 1..10 : Digits[k] = c

DigitVal(c) == (CHOOSE k \in 1..10 : Digits[k] = c) - 1

RECURSIVE DigitsToInt(_)
DigitsToInt(s) ==
    IF s = <<>> THEN 0
    ELSE 10 * DigitsToInt(SubSeq(s, 1, Len(s) - 1)) + DigitVal(s[Len(s)])

\* a decimal value m * 10^(-e) in lowest terms of e
RECURSIVE Decimal(_, _)
Decimal(m, e) ==
    IF m = 0 THEN [m |-> 0, e |-> 0]
    ELSE IF e > 0 /\ m % 10 = 0 THEN Decimal(m \div 10, e - 1)
    ELSE [m |-> m, e |-> e]

ValueError == [m |-> 0, e |-> -1]

\* float(s) on strings of digits, '.', sign and white space: surrounding
\* white space is ignored, then an optional sign, then digits with at most
\* one '.' and at least one digit; anything else raises ValueError.  The
\* value is kept as an exact decimal (the strings are far shorter than the
\* 15 digits a double holds exactly).
float(s) ==
    LET t == strip(s)
        signed == t # <<>> /\ t[1] \in {"+", "-"}
        body == IF signed THEN Tail(t) ELSE t
        dots == {k \in 1..Len(body) : body[k] = "."}
        wellformed == /\ \A k \in 1..Len(body) : IsDigit(body[k]) \/ body[k] = "."
                      /\ Cardinality(dots) <= 1
                      /\ \E k \in 1..Len(body) : IsDigit(body[k])
        dot == IF dots = {} THEN Len(body) + 1 ELSE CHOOSE k \in dots : TRUE
        mant == DigitsToInt(SelectSeq(body, IsDigit))
        frac == IF dots = {} THEN 0 ELSE Len(body) - dot
    IN  IF ~wellformed THEN ValueError
        ELSE Decimal(IF signed /\ t[1] = "-" THEN 0 - mant ELSE mant, frac)

\* str.replace(old, '', 1): only the first occurrence is removed
RECURSIVE replace_first(_, _)
replace_first(s, old) ==
    IF s = <<>> THEN <<>>
    ELSE IF Head(s) = old THEN Tail(s)
    ELSE <<Head(s)>> \o replace_first(Tail(s), old)

\* a changed line 97: only the first ',' and the first '$' are removed
ParseAmountFirstSeparator(s) == float(replace_first(replace_first(s, ","), "$"))

\* line 97: float(vendor["Amount"].replace(',', '').replace('$', ''))
ParseAmount(s) == float(replace(replace(s, ","), "$"))

(***************************************************************************)
(* Program constants.                                                      *)
(***************************************************************************)
\* lines 44-45
departments == <<"Engineering", "Facilities", "G&A", "Legal", "M&A", "Marketing",
                 "SaaS", "Product", "Professional Services", "Sales", "Support",
                 "Finance">>

\* line 82: DictWriter(f, fieldnames=[...])
fieldnames == <<"Vendor", "Amount", "Description", "Category", "Action">>

\* a changed composition: the results are saved before the opportunities
SaveBeforeOpportunities == <<"process_vendors_tool", "add_actions_tool",
                             "save_results_tool", "identify_opportunities_tool">>

\* lines 241-247: the tools composed by |, in order
full_pipeline == <<"process_vendors_tool", "add_actions_tool",
                   "identify_opportunities_tool", "save_results_tool">>

(***************************************************************************)
(* Inputs: the ledgers the run may read and the texts the external         *)
(* capabilities may return.                                                *)
(***************************************************************************)
VendorNames == {"AWS", "Zoom"}

AmountSamples == { <<"$","1",",","2","0","0",".","5","0">>, <<"n","/","a">> }

AmountAlphabet == {"0", "1", ".", "$", ",", "-", " "}

AmountStrings == UNION {[1..n -> AmountAlphabet] : n \in 0..MaxAmountLen}

LedgerRows == [Vendor : VendorNames, Amount : AmountSamples]

\* ledgers of up to MaxVendors rows
Ledgers == UNION {[1..n -> LedgerRows] : n \in 0..MaxVendors}

\* one-row ledgers with any amount string of up to MaxAmountLen characters
AmountLedgers == { <<[Vendor |-> "AWS", Amount |-> a]>> : a \in AmountStrings }

QueryTexts == {"what services does the vendor provide"}

SearchTexts == {"search results"}

SummaryTexts == {"cloud hosting"}

\* a label of the enumeration, another one, and a text outside it
ClassificationTexts == {"SaaS", "Engineering", "Unknown"}

RecommendationTexts ==
    { <<" ","O","p","t","i","m","i","z","e","\n">>,
      <<"t","e","r","m","i","n","a","t","e">> }

OppRow == <<"Acme Corp", "terminate", "$250K potential savings">>

\* the opportunity text as its lines, each line as its comma-separated
\* fields (a blank line has none)
OpportunityTexts ==
    { <<>>,
      <<OppRow, OppRow, OppRow>>,
      <<OppRow, OppRow, <<>> >>,
      <<OppRow, OppRow, OppRow, OppRow>>,
      <<OppRow, <<"Beta LLC", "optimize">> >> }

(***************************************************************************)
(* State.                                                                  *)
(***************************************************************************)
VARIABLES
    ledger,                      \* rows of the input file vendors.csv
    pc,                          \* the statement the run is at
    i,                           \* position of the running for loop (1-based)
    vendors,                     \* analyze_vendors: list(csv.DictReader(f))
    result,                      \* analyze_vendors: dict built by analyze_pipeline
    heap,                        \* the vendor dicts, by address
    processed_data,              \* x["processed_data"]: list of addresses
    processed_data_with_actions, \* x["processed_data_with_actions"]
    vendor_summary,              \* recommend_actions: the shared context
    opportunities,               \* identify_opportunities: the response text
    results_file,                \* results_<timestamp>.csv
    opportunities_file,          \* opportunities_<timestamp>.txt
    trace,                       \* the steps that may raise, in order, with their outcome
    error                        \* the exception that ended the run, if any

vars == <<ledger, pc, i, vendors, result, heap, processed_data,
          processed_data_with_actions, vendor_summary, opportunities,
          results_file, opportunities_file, trace, error>>

NoFile == [exists |-> FALSE, header |-> <<>>, rows |-> <<>>]

NoTextFile == [exists |-> FALSE, text |-> <<>>]

NoError == [step |-> "none", i |-> 0]

\* the state when full_pipeline.invoke is called (line 249)
Start ==
    /\ pc = "read"
    /\ i = 0
    /\ vendors = <<>>
    /\ result = [vendor_name |-> ""]
    /\ heap = <<>>
    /\ processed_data = <<>>
    /\ processed_data_with_actions = <<>>
    /\ vendor_summary = <<>>
    /\ opportunities = <<>>
    /\ results_file = NoFile
    /\ opportunities_file = NoTextFile
    /\ trace = <<>>
    /\ error = NoError

Init == ledger \in Ledgers /\ Start

InitAmounts == ledger \in AmountLedgers /\ Start

(***************************************************************************)
(* Control: the tool a statement belongs to, and where a tool returns to.  *)
(***************************************************************************)
ToolOf(p) ==
    CASE p \in {"read", "query", "search", "summary", "classify", "append"}
            -> "process_vendors_tool"
      [] p \in {"context", "recommend"} -> "add_actions_tool"
      [] p \in {"opportunity", "write_opp"} -> "identify_opportunities_tool"
      [] p = "save" -> "save_results_tool"

Entry(tool) ==
    CASE tool = "process_vendors_tool" -> "read"
      [] tool = "add_actions_tool" -> "context"
      [] tool = "identify_opportunities_tool" -> "opportunity"
      [] tool = "save_results_tool" -> "save"

Position(tool) == CHOOSE k \in 1..Len(full_pipeline) : full_pipeline[k] = tool

\* the statement that runs when the tool of statement p returns
ReturnTarget(p) ==
    LET k == Position(ToolOf(p))
    IN  IF k < Len(full_pipeline) THEN Entry(full_pipeline[k + 1]) ELSE "done"

\* a changed tool: the exception is caught and the tool returns what it has
ExceptionSwallowed(p) == ReturnTarget(p)

\* a changed call: the failed statement is run again
ExceptionRetried(p) == p

\* the statement that runs when statement p raises: nothing catches it
ExceptionTarget(p) == "aborted"

Ok(step, req, resp) == [step |-> step, ok |-> TRUE, req |-> req, resp |-> resp]

Failed(step, req) == [step |-> step, ok |-> FALSE, req |-> req]

Raise(req) ==
    /\ trace' = Append(trace, Failed(pc, req))
    /\ error' = [step |-> pc, i |-> i]
    /\ pc' = ExceptionTarget(pc)
    /\ UNCHANGED <<ledger, i, vendors, result, heap, processed_data,
                   processed_data_with_actions, vendor_summary,
                   opportunities>>

(***************************************************************************)
(* analyze_vendors (lines 87-102) and analyze_pipeline (lines 68-73).      *)
(***************************************************************************)
\* lines 89-90, and line 93 entering the loop
ReadLedger ==
    /\ pc = "read"
    /\ \/ /\ trace' = Append(trace, Ok("read", "vendors.csv", ledger))
          /\ vendors' = ledger
          /\ i' = 1
          /\ pc' = IF ledger = <<>> THEN ReturnTarget(pc) ELSE "query"
          /\ UNCHANGED <<ledger, result, heap, processed_data,
                         processed_data_with_actions, vendor_summary,
                         opportunities, results_file, opportunities_file,
                         error>>
       \/ /\ Raise("vendors.csv")
          /\ UNCHANGED <<results_file, opportunities_file>>

\* line 69: search_query = query_chain
GenerateQuery ==
    /\ pc = "query"
    /\ LET name == vendors[i].Vendor
       IN  \/ \E r \in QueryTexts :
                /\ trace' = Append(trace, Ok("query", name, r))
                /\ result' = [vendor_name |-> name, search_query |-> r]
                /\ pc' = "search"
                /\ UNCHANGED <<ledger, i, vendors, heap, processed_data,
                               processed_data_with_actions, vendor_summary,
                               opportunities, results_file,
                               opportunities_file, error>>
           \/ /\ Raise(name)
              /\ UNCHANGED <<results_file, opportunities_file>>

\* line 70: search_results = search.run(x["search_query"])
RunSearch ==
    /\ pc = "search"
    /\ \/ \E r \in SearchTexts :
            /\ trace' = Append(trace, Ok("search", result.search_query, r))
            /\ result' = result @@ [search_results |-> r]
            /\ pc' = "summary"
            /\ UNCHANGED <<ledger, i, vendors, heap, processed_data,
                           processed_data_with_actions, vendor_summary,
                           opportunities, results_file, opportunities_file,
                           error>>
       \/ /\ Raise(result.search_query)
          /\ UNCHANGED <<results_file, opportunities_file>>

\* line 71: service_description = summary_chain
Summarize ==
    /\ pc = "summary"
    /\ \/ \E r \in SummaryTexts :
            /\ trace' = Append(trace, Ok("summary", result.search_results, r))
            /\ result' = result @@ [service_description |-> r]
            /\ pc' = "classify"
            /\ UNCHANGED <<ledger, i, vendors, heap, processed_data,
                           processed_data_with_actions, vendor_summary,
                           opportunities, results_file, opportunities_file,
                           error>>
       \/ /\ Raise(result.search_results)
          /\ UNCHANGED <<results_file, opportunities_file>>

\* line 72: category = classification_chain (the response text, unchanged)
Classify ==
    /\ pc = "classify"
    /\ \/ \E r \in ClassificationTexts :
            /\ trace' = Append(trace, Ok("classify", result.service_description, r))
            /\ result' = result @@ [category |-> r]
            /\ pc' = "append"
            /\ UNCHANGED <<ledger, i, vendors, heap, processed_data,
                           processed_data_with_actions, vendor_summary,
                           opportunities, results_file, opportunities_file,
                           error>>
       \/ /\ Raise(result.service_description)
          /\ UNCHANGED <<results_file, opportunities_file>>

\* a changed line 95: insert(0, d) in place of append(d)
ListPrepend(list, a) == <<a>> \o list

\* line 95: processed_data.append(d) for the dict at address a
ListAppend(list, a) == Append(list, a)

\* a changed dict literal: Category is read from the wrong key of result
NewRecordWrongKey(vendor, res) ==
    [Vendor |-> vendor.Vendor,
     Amount |-> ParseAmount(vendor.Amount),
     Description |-> res.service_description,
     Category |-> res.service_description]

\* lines 95-100: the dict literal
NewRecord(vendor, res) ==
    [Vendor |-> vendor.Vendor,
     Amount |-> ParseAmount(vendor.Amount),
     Description |-> res.service_description,
     Category |-> res.category]

\* lines 95-101 and the loop's next iteration (line 93) or the return (102)
AppendRecord ==
    /\ pc = "append"
    /\ IF ParseAmount(vendors[i].Amount) = ValueError
       THEN /\ Raise(vendors[i].Amount)
            /\ UNCHANGED <<results_file, opportunities_file>>
       ELSE /\ trace' = Append(trace, Ok("append", vendors[i].Amount,
                                          ParseAmount(vendors[i].Amount)))
            /\ heap' = Append(heap, NewRecord(vendors[i], result))
            /\ processed_data' = ListAppend(processed_data, Len(heap) + 1)
            /\ i' = i + 1
            /\ pc' = IF i < Len(vendors) THEN "query" ELSE ReturnTarget(pc)
            /\ UNCHANGED <<ledger, vendors, result, processed_data_with_actions,
                           vendor_summary, opportunities, results_file,
                           opportunities_file, error>>

(***************************************************************************)
(* recommend_actions (lines 104-168).                                      *)
(***************************************************************************)
\* the dicts a list of addresses refers to
Deref(list) == [k \in 1..Len(list) |-> heap[list[k]]]

\* line 112: one line of the shared context
SummaryLine(v) == <<v.Vendor, v.Amount, v.Category, v.Description>>

\* lines 111-114
VendorSummary(data) == [k \in 1..Len(data) |-> SummaryLine(data[k])]

\* a changed request: the context is rebuilt for each request from the dicts
\* as they are then, with the actions given so far
RecommendationRequestFresh(summary, v) ==
    [vendor_summary |->
        [k \in 1..Len(processed_data) |->
            LET d == heap[processed_data[k]]
            IN  IF "Action" \in DOMAIN d
                THEN <<d.Vendor, d.Amount, d.Category, d.Description, d.Action>>
                ELSE <<d.Vendor, d.Amount, d.Category, d.Description>>],
     vendor_name |-> v.Vendor, amount |-> v.Amount,
     category |-> v.Category, description |-> v.Description]

\* lines 158-164: the variables of one request
RecommendationRequest(summary, v) ==
    [vendor_summary |-> summary, vendor_name |-> v.Vendor, amount |-> v.Amount,
     category |-> v.Category, description |-> v.Description]

\* line 154: lambda x: x.content.strip().lower()
RecommendationOutput(content) == lower(strip(content))

RECURSIVE Truncated(_)
Truncated(d) ==
    IF d.e <= 0 THEN d ELSE Truncated([m |-> d.m \div 10, e |-> d.e - 1])

\* a changed line 165: the amount is also recomputed, to whole units
SetActionAndAmount(v, recommendation) ==
    [Action |-> recommendation, Amount |-> Truncated(v.Amount)] @@ v

\* line 165: vendor["Action"] = recommendation, on the dict itself
SetAction(v, recommendation) == [Action |-> recommendation] @@ v

\* lines 111-114, and line 157 entering the loop (line 168 when it is empty)
BuildContext ==
    /\ pc = "context"
    /\ vendor_summary' = VendorSummary(Deref(processed_data))
    /\ i' = 1
    /\ IF processed_data = <<>>
       THEN /\ pc' = ReturnTarget(pc)
            /\ processed_data_with_actions' = processed_data
       ELSE /\ pc' = "recommend"
            /\ UNCHANGED processed_data_with_actions
    /\ UNCHANGED <<ledger, vendors, result, heap, processed_data, opportunities,
                   results_file, opportunities_file, trace, error>>

\* lines 157-166 for one vendor, and the return of the same list (line 168)
Recommend ==
    /\ pc = "recommend"
    /\ LET a == processed_data[i]
           req == RecommendationRequest(vendor_summary, heap[a])
       IN  \/ \E r \in RecommendationTexts :
                /\ trace' = Append(trace, Ok("recommend", req, r))
                /\ heap' = [heap EXCEPT ![a] = SetAction(@, RecommendationOutput(r))]
                /\ i' = i + 1
                /\ IF i < Len(processed_data)
                   THEN /\ pc' = "recommend"
                        /\ UNCHANGED processed_data_with_actions
                   ELSE /\ pc' = ReturnTarget(pc)
                        /\ processed_data_with_actions' = processed_data
                /\ UNCHANGED <<ledger, vendors, result, processed_data,
                               vendor_summary, opportunities, results_file,
                               opportunities_file, error>>
           \/ /\ Raise(req)
              /\ UNCHANGED <<results_file, opportunities_file>>

(***************************************************************************)
(* identify_top_opportunities (lines 170-225).                             *)
(***************************************************************************)
\* line 208: one line of the request
ActionLine(v) == <<v.Vendor, v.Amount, v.Action, v.Description>>

\* lines 207-210
VendorActions(data) == [k \in 1..Len(data) |-> ActionLine(data[k])]

\* what a failed write may leave of a file holding these lines
Partial(lines) == {SubSeq(lines, 1, k) : k \in 0..Len(lines)}

\* lines 207-217
IdentifyOpportunities ==
    /\ pc = "opportunity"
    /\ LET req == VendorActions(Deref(processed_data_with_actions))
       IN  \/ \E r \in OpportunityTexts :
                /\ trace' = Append(trace, Ok("opportunity", req, r))
                /\ opportunities' = r
                /\ pc' = "write_opp"
                /\ UNCHANGED <<ledger, i, vendors, result, heap, processed_data,
                               processed_data_with_actions, vendor_summary,
                               results_file, opportunities_file, error>>
           \/ /\ Raise(req)
              /\ UNCHANGED <<results_file, opportunities_file>>

\* a changed line 223: only the first three lines are written
WrittenTextTopThree(text) == SubSeq(text, 1, IF Len(text) < 3 THEN Len(text) ELSE 3)

\* line 223: file.write(opportunities)
WrittenText(text) == text

\* lines 218-225: the text is written as it was returned
WriteOpportunities ==
    /\ pc = "write_opp"
    /\ \/ /\ trace' = Append(trace, Ok("write_opp", "opportunities.txt", opportunities))
          /\ opportunities_file' = [exists |-> TRUE, text |-> WrittenText(opportunities)]
          /\ pc' = ReturnTarget(pc)
          /\ UNCHANGED <<ledger, i, vendors, result, heap, processed_data,
                         processed_data_with_actions, vendor_summary,
                         opportunities, results_file, error>>
       \/ /\ Raise("opportunities.txt")
          /\ \/ opportunities_file' = NoTextFile
             \/ \E t \in Partial(WrittenText(opportunities)) :
                  opportunities_file' = [exists |-> TRUE, text |-> t]
          /\ UNCHANGED results_file

(***************************************************************************)
(* save_to_csv (lines 75-85), called on x["processed_data"] (line 239).    *)
(***************************************************************************)
EmptyStr == <<>>

\* a changed save: the rows are those of the dicts before they got an Action
RowBeforeActions(v) ==
    [f \in 1..Len(fieldnames) |->
        IF fieldnames[f] \in DOMAIN v \ {"Action"} THEN v[fieldnames[f]] ELSE EmptyStr]

\* csv.DictWriter: the values of a dict in the order of fieldnames, a
\* missing key written as the empty string
Row(v) ==
    [f \in 1..Len(fieldnames) |->
        IF fieldnames[f] \in DOMAIN v THEN v[fieldnames[f]] ELSE EmptyStr]

\* line 84: writer.writerows(data)
Rows(data) == [k \in 1..Len(data) |-> Row(data[k])]

SaveResults ==
    /\ pc = "save"
    /\ LET rows == Rows(Deref(processed_data))
       IN  \/ /\ trace' = Append(trace, Ok("save", "results.csv", rows))
              /\ results_file' = [exists |-> TRUE, header |-> fieldnames,
                                  rows |-> rows]
              /\ pc' = ReturnTarget(pc)
              /\ UNCHANGED <<ledger, i, vendors, result, heap, processed_data,
                             processed_data_with_actions, vendor_summary,
                             opportunities, opportunities_file, error>>
           \/ /\ Raise("results.csv")
              /\ \/ results_file' = NoFile
                 \/ results_file' = [exists |-> TRUE, header |-> <<>>, rows |-> <<>>]
                 \/ \E t \in Partial(rows) :
                      results_file' = [exists |-> TRUE, header |-> fieldnames,
                                       rows |-> t]
              /\ UNCHANGED opportunities_file

Next ==
    \/ ReadLedger
    \/ GenerateQuery
    \/ RunSearch
    \/ Summarize
    \/ Classify
    \/ AppendRecord
    \/ BuildContext
    \/ Recommend
    \/ IdentifyOpportunities
    \/ WriteOpportunities
    \/ SaveResults

Spec == Init /\ [][Next]_vars

\* the same run on the ledgers that vary the amount string
SpecAmounts == InitAmounts /\ [][Next]_vars

(***************************************************************************)
(* Reading the trace.                                                      *)
(***************************************************************************)
Steps(step) == SelectSeq(trace, LAMBDA e : e.step = step)

Returned(step) == SelectSeq(trace, LAMBDA e : e.step = step /\ e.ok)

Range(s) == {s[k] : k \in 1..Len(s)}

Column(name) == CHOOSE c \in 1..Len(results_file.header) : results_file.header[c] = name

EnrichmentSteps == {"read", "query", "search", "summary", "classify", "append"}

ExternalCalls == {"query", "search", "summary", "classify"}

PerVendorSteps == {"query", "search", "summary", "classify", "append", "recommend"}

(***************************************************************************)
(* C1: the vendors are enriched in input order, get their recommendation   *)
(* in input order, and the i-th data row of the results file carries the   *)
(* Vendor of the i-th input row; a completed run has a row for every input *)
(* row.                                                                    *)
(***************************************************************************)
C1_InputOrderPreserved ==
    LET q == Steps("query")
        r == Steps("recommend")
        d == Deref(processed_data)
    IN  /\ Len(q) <= Len(ledger)
        /\ \A k \in 1..Len(q) : q[k].req = ledger[k].Vendor
        /\ Len(d) <= Len(ledger)
        /\ \A k \in 1..Len(d) : d[k].Vendor = ledger[k].Vendor
        /\ Len(r) <= Len(ledger)
        /\ \A k \in 1..Len(r) : r[k].req.vendor_name = ledger[k].Vendor
        /\ Len(results_file.rows) <= Len(ledger)
        /\ \A k \in 1..Len(results_file.rows) :
              results_file.rows[k][Column("Vendor")] = ledger[k].Vendor
        /\ pc = "done" => Len(results_file.rows) = Len(ledger)

C1_Witness ==
    /\ pc = "done"
    /\ Len(ledger) = 2
    /\ ledger[1].Vendor # ledger[2].Vendor
    /\ Len(results_file.rows) = 2

(***************************************************************************)
(* C2: when an external call of the Enrichment Stage fails on vendor k, no *)
(* call is issued for a later vendor, no Recommendation or Opportunity     *)
(* request is issued, and neither output file is written.                  *)
(***************************************************************************)
C2_EnrichmentFailureAborts ==
    error.step \in ExternalCalls =>
        /\ pc = "aborted"
        /\ \A s \in ExternalCalls : Len(Steps(s)) <= error.i
        /\ Len(Steps("query")) = error.i
        /\ Len(Steps("append")) = error.i - 1
        /\ \A p \in 1..Len(trace) : trace[p].step \in EnrichmentSteps
        /\ ~results_file.exists
        /\ ~opportunities_file.exists

C2_Witness ==
    /\ error.step = "search"
    /\ error.i = 1
    /\ Len(ledger) = 2
    /\ pc = "aborted"

\* a step that raised is the last one, attempted once, and the run is aborted
C3_FailedStepIsLast ==
    \A p \in 1..Len(trace) :
        ~trace[p].ok =>
            /\ p = Len(trace)
            /\ pc = "aborted"
            /\ error.step = trace[p].step
            /\ Len(Steps(trace[p].step)) =
                  IF trace[p].step \in PerVendorSteps THEN error.i ELSE 1

(***************************************************************************)
(* C3: a failed step is never caught or retried: it is the last step of    *)
(* the run, it was attempted once, the run is aborted, and nothing happens *)
(* after the abort.                                                        *)
(***************************************************************************)
C3_NoCatchNoRetry ==
    /\ [](C3_FailedStepIsLast /\ (pc = "aborted" <=> error # NoError))
    /\ [][pc # "aborted"]_vars

C3_Witness ==
    /\ pc = "aborted"
    /\ error.step = "append"
    /\ error.i = 2
    /\ Len(Returned("classify")) = 2

\* the stage a statement belongs to (5: the run is complete)
StageRank(step) ==
    CASE step \in EnrichmentSteps -> 1
      [] step \in {"context", "recommend"} -> 2
      [] step \in {"opportunity", "write_opp"} -> 3
      [] step = "save" -> 4
      [] step = "done" -> 5

(***************************************************************************)
(* C4: control only moves forward through Enrichment, Recommendation,      *)
(* Opportunity and Persistence: the first Recommendation request follows   *)
(* the enrichment of every vendor, the Opportunity request follows the     *)
(* action of every vendor, the opportunities file is written in the        *)
(* Opportunity Stage, the results file only after that stage has           *)
(* completed, and no stage is entered again.                               *)
(***************************************************************************)
C4_StagesStrictlyForward ==
    /\ \A p \in 1..(Len(trace) - 1) :
          StageRank(trace[p].step) <= StageRank(trace[p + 1].step)
    /\ (pc # "aborted" /\ trace # <<>>) =>
          StageRank(trace[Len(trace)].step) <= StageRank(pc)
    /\ Steps("recommend") # <<>> =>
          /\ Len(Returned("append")) = Len(ledger)
          /\ Len(processed_data) = Len(ledger)
    /\ Steps("opportunity") # <<>> =>
          /\ Len(Returned("recommend")) = Len(ledger)
          /\ \A k \in 1..Len(ledger) : "Action" \in DOMAIN heap[processed_data[k]]
    /\ Len(Steps("opportunity")) <= 1
    /\ opportunities_file.exists =>
          /\ trace[Len(trace)].step \in {"write_opp", "save"}
          /\ Len(Steps("write_opp")) = 1
    /\ (results_file.exists \/ Steps("save") # <<>>) =>
          /\ Len(Returned("write_opp")) = 1
          /\ opportunities_file = [exists |-> TRUE, text |-> opportunities]
          /\ Len(Steps("save")) = 1

C4_Witness ==
    /\ pc = "done"
    /\ Len(ledger) = 2
    /\ results_file.exists
    /\ opportunities_file.exists

(***************************************************************************)
(* C5: the results file of a completed run is the header Vendor, Amount,   *)
(* Description, Category, Action and one row per input vendor, and each    *)
(* row carries the action the Recommendation Stage gave that vendor.       *)
(***************************************************************************)
C5_ResultsCarryActions ==
    pc = "done" =>
        LET r == Returned("recommend")
        IN  /\ results_file.exists
            /\ results_file.header =
                  <<"Vendor", "Amount", "Description", "Category", "Action">>
            /\ Len(results_file.rows) = Len(ledger)
            /\ Len(r) = Len(ledger)
            /\ \A k \in 1..Len(ledger) :
                  /\ Len(results_file.rows[k]) = 5
                  /\ results_file.rows[k][1] = ledger[k].Vendor
                  /\ results_file.rows[k][5] = lower(strip(r[k].resp))
                  /\ results_file.rows[k][5] # <<>>

C5_Witness ==
    /\ pc = "done"
    /\ Len(ledger) = 2
    /\ results_file.rows[1][5] # results_file.rows[2][5]

DataRows(text) == SelectSeq(text, LAMBDA row : row # <<>>)

WellFormedOpportunities(text) ==
    /\ Len(DataRows(text)) <= 3
    /\ \A k \in 1..Len(text) : text[k] # <<>> => Len(text[k]) = 3

IsSeparator(c) == c \in {"$", ","}

Stripped(s) == SelectSeq(s, LAMBDA c : ~IsSeparator(c))

(***************************************************************************)
(* C7: an amount string that is numeric once every '$' and ',' is removed, *)
(* wherever they occur, is parsed to the value of the stripped string (and *)
(* a string that is not numeric then raises).                              *)
(***************************************************************************)
C7_AmountParsing ==
    LET a == Steps("append")
    IN  \A k \in 1..Len(a) :
            LET expected == float(Stripped(a[k].req))
            IN  /\ a[k].req = ledger[k].Amount
                /\ a[k].ok <=> expected # ValueError
                /\ a[k].ok =>
                      /\ a[k].resp = expected
                      /\ Deref(processed_data)[k].Amount = expected

C7_Witness ==
    \E k \in 1..Len(trace) :
        /\ trace[k].step = "append"
        /\ trace[k].ok
        /\ trace[k].req = <<"1", "$", ",">>
        /\ heap[1].Amount = [m |-> 1, e |-> 0]

DepartmentSet == {"Engineering", "Facilities", "G&A", "Legal", "M&A", "Marketing",
                  "SaaS", "Product", "Professional Services", "Sales", "Support",
                  "Finance"}

(***************************************************************************)
(* C8: when every classification response is a label of the department     *)
(* enumeration, every category in the results file is one, and the         *)
(* category of a vendor is the classification response for that vendor,    *)
(* unaltered.                                                              *)
(***************************************************************************)
C8_CategoryFromEnumeration ==
    LET c == Returned("classify")
    IN  /\ Range(departments) = DepartmentSet
        /\ Cardinality(DepartmentSet) = 12
        /\ \A k \in 1..Len(processed_data) :
              heap[processed_data[k]].Category = c[k].resp
        /\ \A k \in 1..Len(results_file.rows) :
              /\ results_file.rows[k][Column("Category")] = c[k].resp
              /\ (\A j \in 1..Len(c) : c[j].resp \in DepartmentSet) =>
                    results_file.rows[k][Column("Category")] \in DepartmentSet

C8_Witness ==
    /\ pc = "done"
    /\ Len(results_file.rows) = 2
    /\ results_file.rows[1][4] = "SaaS"
    /\ results_file.rows[2][4] = "Engineering"

KeptFields == {"Vendor", "Amount", "Description", "Category"}

C9_RecordCount ==
    /\ Len(processed_data) = Len(Returned("append"))
    /\ Len(heap) = Len(processed_data)
    /\ \A j, k \in 1..Len(processed_data) :
          j # k => processed_data[j] # processed_data[k]
    /\ \A k \in 1..Len(processed_data) : KeptFields \subseteq DOMAIN Deref(processed_data)[k]

C9_RecordsKept ==
    /\ Len(heap') >= Len(heap)
    /\ \A a \in 1..Len(heap) : \A f \in KeptFields : heap'[a][f] = heap[a][f]
    /\ Len(processed_data') >= Len(processed_data)
    /\ SubSeq(processed_data', 1, Len(processed_data)) = processed_data
    /\ pc \notin EnrichmentSteps => processed_data' = processed_data
    /\ pc # "append" => Len(heap') = Len(heap)
    /\ pc # "recommend" => \A a \in 1..Len(heap) : heap'[a] = heap[a]
    /\ pc = "recommend" =>
          \A a \in 1..Len(heap) :
              heap'[a] # heap[a] =>
                  /\ a = processed_data[i]
                  /\ DOMAIN heap'[a] = DOMAIN heap[a] \cup {"Action"}

(***************************************************************************)
(* C9: a record, once created, keeps its Vendor, Amount, Description and   *)
(* Category; records are never removed, duplicated or reordered; only the  *)
(* Recommendation Stage changes a record, and only its Action; and there   *)
(* are as many records as input rows processed so far.                     *)
(***************************************************************************)
C9_RecordFrame == [](C9_RecordCount) /\ [][C9_RecordsKept]_vars

C9_Witness ==
    /\ pc = "done"
    /\ Len(heap) = 2
    /\ Deref(processed_data)[1].Vendor = "Zoom"
    /\ "Action" \in DOMAIN heap[2]

C10_Context ==
    [k \in 1..Len(processed_data) |->
        LET d == heap[processed_data[k]]
        IN  <<ledger[k].Vendor, d.Amount, d.Category, d.Description>>]

(***************************************************************************)
(* C10: every Recommendation request carries the same context, built       *)
(* before the first request from the name, amount, category and            *)
(* description of every enriched vendor in input order; it holds no action *)
(* given to an earlier vendor.                                             *)
(***************************************************************************)
C10_SharedContext ==
    /\ Steps("recommend") # <<>> =>
          /\ vendor_summary = C10_Context
          /\ Len(vendor_summary) = Len(ledger)
    /\ \A p \in 1..Len(trace) :
          trace[p].step = "recommend" => trace[p].req.vendor_summary = C10_Context

C10_Witness ==
    /\ Len(Steps("recommend")) = 2
    /\ "Action" \in DOMAIN heap[processed_data[1]]
    /\ Steps("recommend")[2].req.vendor_summary[1][1] = "AWS"
    /\ Steps("recommend")[2].req.vendor_summary[2][1] = "Zoom"

====
